---- MODULE Spec2Model ----
(***************************************************************************)
(* A model of package dr (Double Ratchet): two Sessions, alice built by    *)
(* NewSend and bob built by NewRecv, each with its own in-memory Store,    *)
(* exchanging Messages through a network that may reorder, replay and      *)
(* alter them.                                                             *)
(*                                                                         *)
(* Cryptography is symbolic.  A scalar is named by a number k >= 1; the    *)
(* point k*G is named by the same number, and 0 names a byte string of the *)
(* right length that is no valid point.  A PrivateKey is the two blocks    *)
(* <<scalar, point>> and a PublicKey the one block <<point>>.  Root, chain *)
(* and message keys are terms built by the KDFs; Nil (the empty string) is *)
(* Go's nil/empty slice.  The AEAD is ideal: Open succeeds exactly when    *)
(* key and associated data are those given to Seal.                        *)
(***************************************************************************)
EXTENDS Integers, Sequences, FiniteSets, TLC

\* ------------------------------------------------------------- bounds
\* memory.maxSkip; the code sets defaultMaxSkip = 1000, scaled down here.
MaxSkip == 2
\* Session.Seal calls in one behaviour of Spec.
MaxSeal == 2
\* Opens of altered Messages in one behaviour of Spec.
MaxForge == 1
\* Session.Seal calls in one behaviour of SpecPingPong.
MaxRounds == 3

\* ------------------------------------------------------------- values
Party == {"alice", "bob"}
Peer(p) == IF p = "alice" THEN "bob" ELSE "alice"

Nil == <<>>
\* the plaintexts and the additional data ("a", "b") callers pass
PT == {"m", "n"}
AAD == {<<97>>, <<98>>}

\* Blocks in a PublicKey and in a PrivateKey of the suite.
PubLen == 1
PrivLen == 2
\* A block of the right length that is not a valid point.
BadPoint == 0

\* ------------------------------------------------------- header codec
Zeros(n) == [i \in 1..n |-> 0]

RECURSIVE BigEndian(_, _)
\* binary.BigEndian.PutUint64 of a value >= 0, w bytes wide
BigEndian(x, w) == IF w = 0 THEN <<>> ELSE BigEndian(x \div 256, w - 1) \o <<x % 256>>

\* the 8 bytes of uint64(x) for an int x (two's complement when x < 0)
PutUint64(x) == IF x >= 0 THEN BigEndian(x, 8) ELSE [i \in 1..8 |-> 255 - BigEndian(-x - 1, 8)[i]]

RECURSIVE PutUvarint(_)
PutUvarint(x) == IF x >= 128 THEN <<(x % 128) + 128>> \o PutUvarint(x \div 128) ELSE <<x>>

\* binary.PutVarint: zig-zag, then PutUvarint (for the lengths used here, x >= 0)
PutVarint(x) == PutUvarint(IF x < 0 THEN 2 * (-x) - 1 ELSE 2 * x)

\* Header.Append: buf grows by 16+len(PublicKey) zero bytes, PN and N are
\* written at n and n+8, and the result is append(buf[n+16:], PublicKey...).
HeaderAppend(h, buf) ==
    LET n  == Len(buf)
        b1 == buf \o Zeros(16 + Len(h.PublicKey))
        pn == PutUint64(h.PN)
        nn == PutUint64(h.N)
        b2 == [i \in 1..Len(b1) |->
                 IF i \in (n + 1)..(n + 8) THEN pn[i - n]
                 ELSE IF i \in (n + 9)..(n + 16) THEN nn[i - n - 8]
                 ELSE b1[i]]
    IN SubSeq(b2, n + 17, Len(b2)) \o h.PublicKey

RECURSIVE Uint64(_)
\* binary.BigEndian.Uint64 of bytes whose value fits the model's integers
Uint64(b) == IF b = <<>> THEN 0 ELSE 256 * Uint64(SubSeq(b, 1, Len(b) - 1)) + b[Len(b)]

\* int(binary.BigEndian.Uint64(b)): two's complement when the top bit is set
Int64(b) == IF b[1] < 128 THEN Uint64(b) ELSE -(Uint64([i \in 1..Len(b) |-> 255 - b[i]]) + 1)

\* Header.Decode on a zero Header: an error under 16 bytes, else PN, N and
\* the rest of data as the PublicKey
Decode(data) ==
    IF Len(data) < 16
    THEN [err |-> TRUE, h |-> [PublicKey |-> Nil, PN |-> 0, N |-> 0]]
    ELSE [err |-> FALSE,
          h |-> [PublicKey |-> SubSeq(data, 17, Len(data)),
                 PN |-> Int64(SubSeq(data, 1, 8)),
                 N |-> Int64(SubSeq(data, 9, 16))]]

\* Concat: varint(len(additionalData)), additionalData, then h.Append
Concat(additionalData, h) == HeaderAppend(h, PutVarint(Len(additionalData)) \o additionalData)

\* ------------------------------------------------------------ Ratchet
\* Generate with the randomness naming scalar k
Generate(k) == <<k, k>>

Public(priv) == <<priv[2]>>

\* DH panics on a wrong length; the checks are made by the caller below.
DHPanics(priv, pub) == Len(priv) # PrivLen \/ Len(pub) # PubLen
DHFails(priv, pub) == pub[1] = BadPoint
DH(priv, pub) == {priv[1], pub[1]}

KDFrkPanics(rk) == rk = Nil
KDFrk(rk, dh) == [RK |-> <<"rk", rk, dh>>, CK |-> <<"ck", rk, dh, 0>>]

\* KDFck returning the chain key it was given
KDFckSameChain(ck) == [CK |-> ck, MK |-> <<"mk", ck[2], ck[3], ck[4]>>]

KDFckPanics(ck) == ck = Nil
KDFck(ck) == [CK |-> <<"ck", ck[2], ck[3], ck[4] + 1>>, MK |-> <<"mk", ck[2], ck[3], ck[4]>>]

\* the length in bytes of a root, chain or message key: KDFrk and KDFck make
\* keys of KeySize bytes, an empty key has none
KeySize == 32
KeyLen(k) == IF k = Nil THEN 0 ELSE KeySize

\* Ratchet.Seal / Ratchet.Open: an ideal AEAD
RSeal(key, plaintext, additionalData) == [key |-> key, pt |-> plaintext, ad |-> additionalData]
ROpen(key, ciphertext, additionalData) ==
    IF key # Nil /\ ciphertext.key = key /\ ciphertext.ad = additionalData
    THEN [ok |-> TRUE, pt |-> ciphertext.pt]
    ELSE [ok |-> FALSE, pt |-> ""]

\* Header with the two counters in each other's place
HeaderSwapped(priv, prevChainLength, messageNum) ==
    [PublicKey |-> Public(priv), PN |-> messageNum, N |-> prevChainLength]

Header(priv, prevChainLength, messageNum) ==
    [PublicKey |-> Public(priv), PN |-> prevChainLength, N |-> messageNum]

\* -------------------------------------------------------------- State
\* Clone with the sending counter left out of the copy
CloneWithoutNs(s) ==
    [DHs |-> s.DHs, DHr |-> s.DHr, RK |-> s.RK, CKs |-> s.CKs, CKr |-> s.CKr,
     Ns |-> 0, Nr |-> s.Nr, PN |-> s.PN]

\* State.Clone: a deep copy, field by field
Clone(s) ==
    [DHs |-> s.DHs, DHr |-> s.DHr, RK |-> s.RK, CKs |-> s.CKs, CKr |-> s.CKr,
     Ns |-> s.Ns, Nr |-> s.Nr, PN |-> s.PN]

\* ------------------------------------------------------------- memory
\* memory.key: fmt.Sprintf("%d:%x", Nr, pub), one string per (Nr, pub) pair
key(Nr, pub) == <<Nr, pub>>

\* memory.keys of a new memory{}
NoKeys == [x \in {} |-> Nil]

\* StoreKey filing the key under the number after Nr
StoreKeyUnderNext(keys, Nr, pub, mk) ==
    IF Cardinality(DOMAIN keys) > MaxSkip
    THEN [err |-> TRUE, keys |-> keys]
    ELSE [err |-> FALSE,
          keys |-> [x \in (DOMAIN keys) \cup {<<Nr + 1, pub>>} |->
                      IF x = <<Nr + 1, pub>> THEN mk ELSE keys[x]]]

\* StoreKey refusing only at four times the limit
StoreKeyLateLimit(keys, Nr, pub, mk) ==
    IF Cardinality(DOMAIN keys) > 4 * MaxSkip
    THEN [err |-> TRUE, keys |-> keys]
    ELSE [err |-> FALSE,
          keys |-> [x \in (DOMAIN keys) \cup {key(Nr, pub)} |->
                      IF x = key(Nr, pub) THEN mk ELSE keys[x]]]

\* memory.StoreKey: refuses when len(m.keys) > m.maxSkip, else sets the entry
StoreKey(keys, Nr, pub, mk) ==
    IF Cardinality(DOMAIN keys) > MaxSkip
    THEN [err |-> TRUE, keys |-> keys]
    ELSE [err |-> FALSE,
          keys |-> [x \in (DOMAIN keys) \cup {key(Nr, pub)} |->
                      IF x = key(Nr, pub) THEN mk ELSE keys[x]]]

\* memory.LoadKey: found or ErrNotFound
HasKey(keys, Nr, pub) == key(Nr, pub) \in DOMAIN keys
LoadKey(keys, Nr, pub) == keys[key(Nr, pub)]

\* memory.DeleteKey
DeleteKey(keys, Nr, pub) == [x \in (DOMAIN keys) \ {key(Nr, pub)} |-> keys[x]]

\* ------------------------------------------------------- constructors
SK == <<"sk">>

\* NewSend leaving the first chain key in both chains
NewSendBothChains(sk, peer, k) ==
    LET priv == Generate(k)
        out  == KDFrk(sk, DH(priv, peer))
    IN [DHs |-> priv, DHr |-> peer, RK |-> out.RK, CKs |-> out.CK, CKr |-> out.CK,
        Ns |-> 0, Nr |-> 0, PN |-> 0]

\* NewSend with Generate drawing scalar k
NewSend(sk, peer, k) ==
    LET priv == Generate(k)
        out  == KDFrk(sk, DH(priv, peer))
    IN [DHs |-> priv, DHr |-> peer, RK |-> out.RK, CKs |-> out.CK, CKr |-> Nil,
        Ns |-> 0, Nr |-> 0, PN |-> 0]

NewRecv(sk, priv) ==
    [DHs |-> priv, DHr |-> Nil, RK |-> sk, CKs |-> Nil, CKr |-> Nil,
     Ns |-> 0, Nr |-> 0, PN |-> 0]

\* What a constructor returns: res is "ok", an error or "panic"; made tells
\* whether a *Session came back, s is its State.
Made(s) == [res |-> "ok", made |-> TRUE, s |-> s]
NotMade(res) == [res |-> res, made |-> FALSE, s |-> NewRecv(Nil, Nil)]

\* NewSend as called: Generate, then DH, then KDFrk; fail = "rng" makes
\* Generate return an error
NewSendCall(sk, peer, k, fail) ==
    IF fail = "rng" THEN NotMade("rng")
    ELSE IF DHPanics(Generate(k), peer) THEN NotMade("panic")
    ELSE IF DHFails(Generate(k), peer) THEN NotMade("dh")
    ELSE IF KDFrkPanics(sk) THEN NotMade("panic")
    ELSE Made(NewSend(sk, peer, k))

\* NewRecv as called: no argument is checked
NewRecvCall(sk, priv) == Made(NewRecv(sk, priv))

\* ------------------------------------------------------ skip, ratchet
\* A call in progress: c.s is the *State worked on, c.keys the store's map,
\* c.err the error (or panic) that ended it, "ok" while there is none, c.kdf
\* and c.stores the calls of KDFck and of Store.StoreKey made so far.
RECURSIVE skip(_, _)
\* State.skip: store the keys of [s.Nr, until), stop at the first error
skip(c, until) ==
    IF c.s.CKr = Nil THEN c
    ELSE IF ~(c.s.Nr < until) THEN c
    ELSE LET out == KDFck(c.s.CKr)
             st  == StoreKey(c.keys, c.s.Nr, c.s.DHr, out.MK)
         IN IF st.err
            THEN [c EXCEPT !.s.CKr = out.CK, !.err = "limit", !.kdf = @ + 1, !.stores = @ + 1]
            ELSE skip([c EXCEPT !.s.CKr = out.CK, !.s.Nr = @ + 1, !.keys = st.keys,
                                !.kdf = @ + 1, !.stores = @ + 1], until)

\* ratchet replacing DHs before the receiving chain is derived
ratchetNewKeyFirst(c, pub, k, fail) ==
    LET s1 == [c.s EXCEPT !.PN = c.s.Ns, !.Ns = 0, !.Nr = 0, !.DHr = pub]
    IN IF DHPanics(s1.DHs, pub) THEN [c EXCEPT !.s = s1, !.err = "panic"]
       ELSE IF DHFails(s1.DHs, pub) THEN [c EXCEPT !.s = s1, !.err = "dh"]
       ELSE IF KDFrkPanics(s1.RK) THEN [c EXCEPT !.s = s1, !.err = "panic"]
       ELSE IF fail = "rng" THEN [c EXCEPT !.s = [s1 EXCEPT !.DHs = Nil], !.err = "rng"]
       ELSE LET s2 == [s1 EXCEPT !.DHs = Generate(k)]
                a  == KDFrk(s2.RK, DH(s2.DHs, pub))
                s3 == [s2 EXCEPT !.RK = a.RK, !.CKr = a.CK]
                b  == KDFrk(s3.RK, DH(s3.DHs, pub))
            IN [c EXCEPT !.s = [s3 EXCEPT !.RK = b.RK, !.CKs = b.CK]]

\* State.ratchet; k names the scalar Generate draws, fail = "rng" makes it fail
ratchet(c, pub, k, fail) ==
    LET s1 == [c.s EXCEPT !.PN = c.s.Ns, !.Ns = 0, !.Nr = 0, !.DHr = pub]
    IN IF DHPanics(s1.DHs, pub) THEN [c EXCEPT !.s = s1, !.err = "panic"]
       ELSE IF DHFails(s1.DHs, pub) THEN [c EXCEPT !.s = s1, !.err = "dh"]
       ELSE IF KDFrkPanics(s1.RK) THEN [c EXCEPT !.s = s1, !.err = "panic"]
       ELSE LET a  == KDFrk(s1.RK, DH(s1.DHs, pub))
                s2 == [s1 EXCEPT !.RK = a.RK, !.CKr = a.CK]
            IN IF fail = "rng" THEN [c EXCEPT !.s = [s2 EXCEPT !.DHs = Nil], !.err = "rng"]
               ELSE LET s3 == [s2 EXCEPT !.DHs = Generate(k)]
                        b  == KDFrk(s3.RK, DH(s3.DHs, pub))
                    IN [c EXCEPT !.s = [s3 EXCEPT !.RK = b.RK, !.CKs = b.CK]]

\* ------------------------------------------------------- Seal and Open
NoMsg == [Header |-> [PublicKey |-> Nil, PN |-> 0, N |-> 0],
          Ciphertext |-> [key |-> Nil, pt |-> "", ad |-> Nil]]

\* What a call in progress starts from.
Call(s, keys) == [s |-> s, keys |-> keys, err |-> "ok", kdf |-> 0, stores |-> 0]

\* The call's use of Store.Save: not called, or called with the *State arg.
NotSaved == [called |-> FALSE, arg |-> NewRecv(Nil, Nil)]
Saved(s) == [called |-> TRUE, arg |-> s]

\* State.wipe: the fields of the State whose buffers it zeroes
wipe == {"DHs", "DHr", "RK", "CKs", "CKr"}

\* What a call leaves behind: its result res ("ok", an error, or "panic"),
\* the message or plaintext returned, the Session's state, the store's map,
\* and what it gave to Store.Save; then the calls of KDFck and StoreKey it
\* made, the message key its mk buffer holds when it returns (Nil: none, or
\* zeroed), the fields of the replaced State it zeroed, and whether the
\* state's DHr is the PublicKey buffer of the Header it was given.
Return(res, msg, pt, s, keys, save) ==
    [res |-> res, msg |-> msg, pt |-> pt, s |-> s, keys |-> keys, save |-> save,
     kdf |-> 0, stores |-> 0, mk |-> Nil, wiped |-> {}, hdr |-> FALSE]

\* the return r of a call that made kdf and stores calls of KDFck and StoreKey
\* and left the message key mk in its buffer
Did(r, kdf, stores, mk) == [r EXCEPT !.kdf = kdf, !.stores = stores, !.mk = mk]

\* Seal committing the new CKs but not the message number
SealCallKeepNs(s, keys, plaintext, additionalData, fail) ==
    IF KDFckPanics(s.CKs) THEN Return("panic", NoMsg, "", s, keys, NotSaved)
    ELSE LET out == KDFck(s.CKs)
             h   == Header(s.DHs, s.PN, s.Ns)
             msg == [Header |-> h,
                     Ciphertext |-> RSeal(out.MK, plaintext, Concat(additionalData, h))]
         IN IF fail = "save" THEN Return("save", NoMsg, "", s, keys, Saved(s))
            ELSE Return("ok", msg, "", [s EXCEPT !.CKs = out.CK], keys, Saved(s))

\* Seal keying the chain step with the empty CKs of a new receiver
SealCallUnchecked(s, keys, plaintext, additionalData, fail) ==
    LET cks == IF s.CKs = Nil THEN <<"ck", s.RK, {}, 0>> ELSE s.CKs
        out == KDFck(cks)
        h   == Header(s.DHs, s.PN, s.Ns)
        msg == [Header |-> h,
                Ciphertext |-> RSeal(out.MK, plaintext, Concat(additionalData, h))]
    IN IF fail = "save" THEN Return("save", NoMsg, "", s, keys, Saved(s))
       ELSE Return("ok", msg, "", [s EXCEPT !.CKs = out.CK, !.Ns = @ + 1], keys, Saved(s))

\* Seal committing CKs and Ns before it calls Store.Save
SealCallCommitFirst(s, keys, plaintext, additionalData, fail) ==
    IF KDFckPanics(s.CKs) THEN Return("panic", NoMsg, "", s, keys, NotSaved)
    ELSE LET out == KDFck(s.CKs)
             h   == Header(s.DHs, s.PN, s.Ns)
             msg == [Header |-> h,
                     Ciphertext |-> RSeal(out.MK, plaintext, Concat(additionalData, h))]
             t   == [s EXCEPT !.CKs = out.CK, !.Ns = @ + 1]
         IN IF fail = "save" THEN Return("save", NoMsg, "", t, keys, Saved(t))
            ELSE Return("ok", msg, "", t, keys, Saved(t))

\* Session.Seal; fail = "save" makes Store.Save return an error
SealCall(s, keys, plaintext, additionalData, fail) ==
    IF KDFckPanics(s.CKs) THEN Return("panic", NoMsg, "", s, keys, NotSaved)
    ELSE LET out == KDFck(s.CKs)
             h   == Header(s.DHs, s.PN, s.Ns)
             msg == [Header |-> h,
                     Ciphertext |-> RSeal(out.MK, plaintext, Concat(additionalData, h))]
         IN IF fail = "save" THEN Did(Return("save", NoMsg, "", s, keys, Saved(s)), 1, 0, out.MK)
            ELSE Did(Return("ok", msg, "", [s EXCEPT !.CKs = out.CK, !.Ns = @ + 1], keys,
                            Saved(s)), 1, 0, out.MK)

\* Open through a stored key, deleting the key before it is tried
OpenSkippedDeleteFirst(s, keys, msg, additionalData) ==
    LET h == msg.Header
        o == ROpen(LoadKey(keys, h.N, h.PublicKey), msg.Ciphertext, Concat(additionalData, h))
    IN IF ~o.ok THEN Return("auth", NoMsg, "", s, DeleteKey(keys, h.N, h.PublicKey), NotSaved)
       ELSE Return("ok", NoMsg, o.pt, s, DeleteKey(keys, h.N, h.PublicKey), NotSaved)

\* Session.Open, the path through a stored (skipped) key
OpenSkipped(s, keys, msg, additionalData) ==
    LET h  == msg.Header
        mk == LoadKey(keys, h.N, h.PublicKey)
        o  == ROpen(mk, msg.Ciphertext, Concat(additionalData, h))
    IN IF ~o.ok THEN Did(Return("auth", NoMsg, "", s, keys, NotSaved), 0, 0, mk)
       ELSE Did(Return("ok", NoMsg, o.pt, s, DeleteKey(keys, h.N, h.PublicKey), NotSaved),
                0, 0, mk)

\* Open advancing the chains on the Session's state itself, not on a clone
OpenChainInPlace(s, keys, msg, additionalData, k, fail) ==
    LET h   == msg.Header
        tmp == Call(s, keys)
        c0  == IF h.PublicKey # tmp.s.DHr THEN skip(tmp, h.PN) ELSE tmp
        c1  == IF h.PublicKey # tmp.s.DHr /\ c0.err = "ok"
               THEN ratchet(c0, h.PublicKey, k, fail) ELSE c0
        c2  == IF c1.err = "ok" THEN skip(c1, h.N) ELSE c1
    IN IF c2.err # "ok" THEN Return(c2.err, NoMsg, "", c2.s, c2.keys, NotSaved)
       ELSE IF KDFckPanics(c2.s.CKr) THEN Return("panic", NoMsg, "", c2.s, c2.keys, NotSaved)
       ELSE LET out == KDFck(c2.s.CKr)
                t   == [c2.s EXCEPT !.CKr = out.CK, !.Nr = @ + 1]
                o   == ROpen(out.MK, msg.Ciphertext, Concat(additionalData, h))
            IN IF ~o.ok THEN Return("auth", NoMsg, "", t, c2.keys, NotSaved)
               ELSE IF fail = "save" THEN Return("save", NoMsg, "", t, c2.keys, Saved(t))
               ELSE Return("ok", NoMsg, o.pt, t, c2.keys, Saved(t))

\* Open replacing the Session's state by the clone also when skip or ratchet failed
OpenChainCommitOnError(s, keys, msg, additionalData, k, fail) ==
    LET h   == msg.Header
        tmp == Call(Clone(s), keys)
        c0  == IF h.PublicKey # tmp.s.DHr THEN skip(tmp, h.PN) ELSE tmp
        c1  == IF h.PublicKey # tmp.s.DHr /\ c0.err = "ok"
               THEN ratchet(c0, h.PublicKey, k, fail) ELSE c0
        c2  == IF c1.err = "ok" THEN skip(c1, h.N) ELSE c1
    IN IF c2.err # "ok" THEN Return(c2.err, NoMsg, "", c2.s, c2.keys, NotSaved)
       ELSE IF KDFckPanics(c2.s.CKr) THEN Return("panic", NoMsg, "", s, c2.keys, NotSaved)
       ELSE LET out == KDFck(c2.s.CKr)
                t   == [c2.s EXCEPT !.CKr = out.CK, !.Nr = @ + 1]
                o   == ROpen(out.MK, msg.Ciphertext, Concat(additionalData, h))
            IN IF ~o.ok THEN Return("auth", NoMsg, "", s, c2.keys, NotSaved)
               ELSE IF fail = "save" THEN Return("save", NoMsg, "", s, c2.keys, Saved(t))
               ELSE Return("ok", NoMsg, o.pt, t, c2.keys, Saved(t))

\* skip and ratchet as Open calls them: not reached once an error has returned
skipNext(c, until) == IF c.err = "ok" THEN skip(c, until) ELSE c
ratchetNext(c, pub, k, fail) == IF c.err = "ok" THEN ratchet(c, pub, k, fail) ELSE c

\* Session.Open once skip and ratchet have run on the clone, with c their
\* outcome: the chain step, the AEAD, Store.Save, the wipe and the commit;
\* new tells whether ratchet ran
OpenChainEnd(s, c, msg, additionalData, fail, new) ==
    IF c.err # "ok"
    THEN Did(Return(c.err, NoMsg, "", s, c.keys, NotSaved), c.kdf, c.stores, Nil)
    ELSE IF KDFckPanics(c.s.CKr)
    THEN Did(Return("panic", NoMsg, "", s, c.keys, NotSaved), c.kdf, c.stores, Nil)
    ELSE LET out == KDFck(c.s.CKr)
             t   == [c.s EXCEPT !.CKr = out.CK, !.Nr = @ + 1]
             o   == ROpen(out.MK, msg.Ciphertext, Concat(additionalData, msg.Header))
         IN IF ~o.ok
            THEN Did(Return("auth", NoMsg, "", s, c.keys, NotSaved),
                     c.kdf + 1, c.stores, out.MK)
            ELSE IF fail = "save"
            THEN Did(Return("save", NoMsg, "", s, c.keys, Saved(t)),
                     c.kdf + 1, c.stores, out.MK)
            ELSE [Did(Return("ok", NoMsg, o.pt, t, c.keys, Saved(t)),
                      c.kdf + 1, c.stores, out.MK)
                    EXCEPT !.wiped = wipe, !.hdr = new]

\* Session.Open on tmp, the clone of the state: skip and ratchet when the
\* header's public key is not DHr, then skip to the header's N
OpenChainOn(s, tmp, msg, additionalData, k, fail) ==
    OpenChainEnd(s,
                 skipNext(IF msg.Header.PublicKey # tmp.s.DHr
                          THEN ratchetNext(skip(tmp, msg.Header.PN), msg.Header.PublicKey, k, fail)
                          ELSE tmp,
                          msg.Header.N),
                 msg, additionalData, fail, msg.Header.PublicKey # tmp.s.DHr)

\* Session.Open, the path that advances the chains on a clone of the state
OpenChain(s, keys, msg, additionalData, k, fail) ==
    OpenChainOn(s, Call(Clone(s), keys), msg, additionalData, k, fail)

\* Session.Open
OpenCall(s, keys, msg, additionalData, k, fail) ==
    IF HasKey(keys, msg.Header.N, msg.Header.PublicKey)
    THEN OpenSkipped(s, keys, msg, additionalData)
    ELSE OpenChain(s, keys, msg, additionalData, k, fail)

\* ---------------------------------------------------------- the system
VARIABLES
    state,    \* state[p]: Session.state of party p
    store,    \* store[p]: memory.keys of party p's Store
    net,      \* the Messages sealed so far, in order, each with its sender, plaintext and aad
    nextKey,  \* the scalar the next committed Generate draws
    opened,   \* the indices of net whose Message some Open has returned a plaintext for
    forged,   \* the number of Opens of altered Messages so far
    twin,     \* a Session made by Resume from a clone of twin.who's state, given
              \* every call twin.who gets, with the result of its last call
    last,     \* the last call: its arguments, its result, the state before it and
              \* what it gave to Store.Save
    caller    \* caller[p].shared: the caller's buffers that fields of p's state
              \* point into, as <<buffer, field>>; caller[p].zeroed: the caller's
              \* buffers that p's Session has written to

vars == <<state, store, net, nextKey, opened, forged, twin, last, caller>>

\* NewRecv keeps priv and SK as the state's DHs and RK, NewSend keeps peer as
\* its DHr, ratchet keeps the Header's PublicKey as its DHr
NewRecvShares == {<<"priv", "DHs">>, <<"SK", "RK">>}
NewSendShares == {<<"peer", "DHr">>}
ratchetShares == {<<"hdr", "DHr">>}
NoShares == [shared |-> {}, zeroed |-> {}]

\* Open's commit: wipe zeroes what the replaced state pointed into, and the
\* new state is a Clone but for the DHr a ratchet set
Commit(c, r) ==
    IF r.wiped = {} THEN c
    ELSE [shared |-> IF r.hdr THEN ratchetShares ELSE {},
          zeroed |-> c.zeroed \cup {b[1] : b \in {x \in c.shared : x[2] \in r.wiped}}]

\* the resumed Session after the call that returned t
TwinAfter(t) ==
    [twin EXCEPT !.s = t.s, !.keys = t.keys, !.res = t.res, !.msg = t.msg, !.pt = t.pt]

\* bob publishes key pair 1; alice's NewSend generates key pair 2
Init ==
    /\ state = [p \in Party |->
                  IF p = "bob" THEN NewRecv(SK, Generate(1))
                  ELSE NewSend(SK, Public(Generate(1)), 2)]
    /\ store = [p \in Party |-> NoKeys]
    /\ net = <<>>
    /\ nextKey = 3
    /\ opened = {}
    /\ forged = 0
    /\ twin = [on |-> FALSE, who |-> "alice", s |-> NewRecv(SK, Generate(1)), keys |-> NoKeys,
               clean |-> TRUE, res |-> "ok", msg |-> NoMsg, pt |-> ""]
    /\ last = [op |-> "init", who |-> "alice", res |-> "ok", idx |-> 0, msg |-> NoMsg,
               aad |-> Nil, pt |-> "", pre |-> NewRecv(SK, Generate(1)), prekeys |-> NoKeys,
               save |-> NotSaved, again |-> FALSE, kdf |-> 0, stores |-> 0, mk |-> Nil,
               wiped |-> {}]
    /\ caller = [p \in Party |->
                   [shared |-> IF p = "bob" THEN NewRecvShares ELSE NewSendShares,
                    zeroed |-> {}]]

\* p calls Seal(plaintext, additionalData)
SealStep(p, plaintext, additionalData, fail) ==
    \E r \in {SealCall(state[p], store[p], plaintext, additionalData, fail)} :
       /\ fail \in {"none", r.res}
       /\ state' = [state EXCEPT ![p] = r.s]
       /\ store' = [store EXCEPT ![p] = r.keys]
       /\ net' = IF r.res = "ok"
                 THEN Append(net, [msg |-> r.msg, from |-> p, aad |-> additionalData, pt |-> plaintext])
                 ELSE net
       /\ last' = [op |-> "Seal", who |-> p, res |-> r.res, idx |-> IF r.res = "ok" THEN Len(net) + 1 ELSE 0,
                   msg |-> r.msg, aad |-> additionalData, pt |-> plaintext,
                   pre |-> state[p], prekeys |-> store[p], save |-> r.save,
                   again |-> FALSE, kdf |-> r.kdf, stores |-> r.stores, mk |-> r.mk,
                   wiped |-> r.wiped]
       /\ twin' = IF twin.on /\ twin.who = p
                  THEN TwinAfter(SealCall(twin.s, twin.keys, plaintext, additionalData, fail))
                  ELSE twin
       /\ UNCHANGED <<nextKey, opened, forged, caller>>

\* p calls Open(msg, additionalData), msg being net[i] with header h
OpenStep(p, i, h, additionalData, fail) ==
    \E msg \in {[Header |-> h, Ciphertext |-> net[i].msg.Ciphertext]} :
    \E r \in {OpenCall(state[p], store[p], msg, additionalData, nextKey, fail)} :
       /\ fail \in {"none", r.res}
       /\ state' = [state EXCEPT ![p] = r.s]
       /\ store' = [store EXCEPT ![p] = r.keys]
       /\ nextKey' = IF r.s.DHs # state[p].DHs THEN nextKey + 1 ELSE nextKey
       /\ opened' = IF r.res = "ok" THEN opened \cup {i} ELSE opened
       /\ last' = [op |-> "Open", who |-> p, res |-> r.res, idx |-> i, msg |-> msg,
                   aad |-> additionalData, pt |-> r.pt, pre |-> state[p], prekeys |-> store[p],
                   save |-> r.save, again |-> i \in opened, kdf |-> r.kdf,
                   stores |-> r.stores, mk |-> r.mk, wiped |-> r.wiped]
       /\ caller' = [caller EXCEPT ![p] = Commit(@, r)]
       /\ twin' = IF twin.on /\ twin.who = p
                  THEN TwinAfter(OpenCall(twin.s, twin.keys, msg, additionalData, nextKey, fail))
                  ELSE twin
       /\ UNCHANGED net

\* the failures a call may meet: Generate's reader fails, Store.Save fails
Fail == {"none", "rng", "save"}

\* the headers a network that alters one field can make of h: a counter
\* up to one past the skip limit, far past it, or negative (Decode makes an
\* int of the 8 bytes), a public key of either length, valid or not
MaxN == MaxSkip + 1
FarN == 100
Counters == ((-1)..MaxN) \cup {FarN}
PubKeys == {<<k>> : k \in BadPoint..(nextKey - 1)} \cup {Nil}
Altered(h) ==
    ({[h EXCEPT !.PN = x] : x \in Counters} \cup {[h EXCEPT !.N = x] : x \in Counters}
       \cup {[h EXCEPT !.PublicKey = q] : q \in PubKeys}) \ {h}

\* what the caller seals as the n-th Message of a behaviour of Spec
InputAt(n) == IF n % 2 = 1 THEN <<"m", <<97>>>> ELSE <<"n", <<98>>>>

\* either party seals the next Message
Seal == \E p \in Party, fail \in Fail :
            /\ Len(net) < MaxSeal
            /\ SealStep(p, InputAt(Len(net) + 1)[1], InputAt(Len(net) + 1)[2], fail)

\* a Message of the peer arrives as sealed (in any order, any number of times)
\* and is opened with the aad it was sealed with
Deliver == \E p \in Party, i \in 1..Len(net), fail \in Fail :
               /\ net[i].from = Peer(p)
               /\ OpenStep(p, i, net[i].msg.Header, net[i].aad, fail)
               /\ UNCHANGED forged

\* a Message of the peer arrives with its header altered or is opened with another aad
Forge == \E p \in Party, i \in 1..Len(net), fail \in Fail :
             /\ net[i].from = Peer(p)
             /\ forged < MaxForge
             /\ forged' = forged + 1
             /\ \/ \E h \in Altered(net[i].msg.Header) : OpenStep(p, i, h, net[i].aad, fail)
                \/ \E a \in AAD \ {net[i].aad} : OpenStep(p, i, net[i].msg.Header, a, fail)

Next == Seal \/ Deliver \/ Forge

Spec == Init /\ [][Next]_vars

\* Resume(r, state.Clone()) with no options: the clone and a new, empty memory
Resume(s) == [s |-> Clone(s), keys |-> NoKeys]

\* ------------------------------------------------------------ ping-pong
\* TestAliceBob: the parties take turns, alice first; each Message is opened by
\* the peer, with the aad it was sealed with, before the next is sealed.
Delivered == \A i \in 1..Len(net) : i \in opened
Turn == IF net = <<>> THEN "alice" ELSE Peer(net[Len(net)].from)

SealPP == \E plaintext \in PT, additionalData \in AAD :
              /\ Len(net) < MaxRounds
              /\ Delivered
              /\ SealStep(Turn, plaintext, additionalData, "none")

DeliverPP == /\ ~Delivered
             /\ OpenStep(Turn, Len(net), net[Len(net)].msg.Header, net[Len(net)].aad, "none")
             /\ UNCHANGED forged

NextPingPong == SealPP \/ DeliverPP

SpecPingPong == Init /\ [][NextPingPong]_vars

\* --------------------------------------------------------- out of order
\* TestOutOfOrder: alice seals up to MaxSkip Messages and bob, who never
\* replies, opens each of them once, in any order.
SealOOO == \E plaintext \in PT, additionalData \in AAD :
               /\ Len(net) < MaxSkip
               /\ SealStep("alice", plaintext, additionalData, "none")

DeliverOOO == \E i \in 1..Len(net) :
                  /\ i \notin opened
                  /\ OpenStep("bob", i, net[i].msg.Header, net[i].aad, "none")
                  /\ UNCHANGED forged

NextOutOfOrder == SealOOO \/ DeliverOOO

SpecOutOfOrder == Init /\ [][NextOutOfOrder]_vars

\* ---------------------------------------------------------------- burst
\* alice seals up to MaxSkip + 2 Messages and bob, who never replies, opens
\* each of them once, in any order.
SealBurst == \E plaintext \in PT :
                 /\ Len(net) < MaxSkip + 2
                 /\ SealStep("alice", plaintext, InputAt(Len(net) + 1)[2], "none")

DeliverBurst == \E i \in 1..Len(net) :
                    /\ i \notin opened
                    /\ OpenStep("bob", i, net[i].msg.Header, net[i].aad, "none")
                    /\ UNCHANGED forged

NextBurst == SealBurst \/ DeliverBurst

SpecBurst == Init /\ [][NextBurst]_vars

\* --------------------------------------------------------------- resume
\* TestResume, at any point: once in a behaviour a party's Session is resumed
\* from a clone of its state, and the resumed Session gets the same calls.
SealR == \E p \in Party :
             /\ Len(net) < MaxSeal
             /\ SealStep(p, InputAt(Len(net) + 1)[1], InputAt(Len(net) + 1)[2], "none")

DeliverR == \E p \in Party, i \in 1..Len(net) :
                /\ net[i].from = Peer(p)
                /\ OpenStep(p, i, net[i].msg.Header, net[i].aad, "none")
                /\ UNCHANGED forged

ResumeR == \E p \in Party :
               /\ ~twin.on
               /\ twin' = [on |-> TRUE, who |-> p, s |-> Resume(state[p]).s,
                           keys |-> Resume(state[p]).keys, clean |-> store[p] = NoKeys,
                           res |-> "ok", msg |-> NoMsg, pt |-> ""]
               /\ last' = [op |-> "Resume", who |-> p, res |-> "ok", idx |-> 0, msg |-> NoMsg,
                           aad |-> Nil, pt |-> "", pre |-> state[p], prekeys |-> store[p],
                           save |-> NotSaved, again |-> FALSE, kdf |-> 0, stores |-> 0,
                           mk |-> Nil, wiped |-> {}]
               /\ UNCHANGED <<state, store, net, nextKey, opened, forged, caller>>

NextResume == SealR \/ DeliverR \/ ResumeR

SpecResume == Init /\ [][NextResume]_vars

\* --------------------------------------------------------- conversation
\* Either party seals, up to MaxRounds + 1 Messages in all; every Message may
\* reach the peer late, out of order and more than once; Generate and
\* Store.Save may fail.
SealConv == \E p \in Party, fail \in Fail :
                /\ Len(net) < MaxRounds + 1
                /\ SealStep(p, InputAt(Len(net) + 1)[1], InputAt(Len(net) + 1)[2], fail)

DeliverConv == \E p \in Party, i \in 1..Len(net), fail \in Fail :
                   /\ net[i].from = Peer(p)
                   /\ OpenStep(p, i, net[i].msg.Header, net[i].aad, fail)
                   /\ UNCHANGED forged

NextConv == SealConv \/ DeliverConv

SpecConv == Init /\ [][NextConv]_vars

\* --------------------------------------------------------------- tamper
\* The conversation with no failing Generate or Store.Save and each Message
\* delivered as sealed at most once, but with up to MaxForge Messages
\* delivered with a counter of their header altered.
SealT == \E p \in Party :
             /\ Len(net) < MaxRounds + 1
             /\ SealStep(p, InputAt(Len(net) + 1)[1], InputAt(Len(net) + 1)[2], "none")

DeliverT == \E p \in Party, i \in 1..Len(net) :
                /\ net[i].from = Peer(p)
                /\ i \notin opened
                /\ OpenStep(p, i, net[i].msg.Header, net[i].aad, "none")
                /\ UNCHANGED forged

ForgeT == \E p \in Party, i \in 1..Len(net) :
              /\ net[i].from = Peer(p)
              /\ i \notin opened
              /\ forged < MaxForge
              /\ forged' = forged + 1
              /\ \E h \in {g \in Altered(net[i].msg.Header) :
                               g.PublicKey = net[i].msg.Header.PublicKey} :
                    OpenStep(p, i, h, net[i].aad, "none")

NextTamper == SealT \/ DeliverT \/ ForgeT

SpecTamper == Init /\ [][NextTamper]_vars

\* -------------------------------------------------------------- buffers
\* The conversation with no failures, in which the caller of a party may write
\* the public key of another Message it received into the Header.PublicKey
\* buffer it gave to that party's last ratcheting Open (Header.Decode into the
\* same Header appends to PublicKey[:0]). The state's DHr is that buffer.
SealB == \E p \in Party :
             /\ Len(net) < MaxRounds
             /\ SealStep(p, InputAt(Len(net) + 1)[1], InputAt(Len(net) + 1)[2], "none")

DeliverB == \E p \in Party, i \in 1..Len(net) :
                /\ net[i].from = Peer(p)
                /\ OpenStep(p, i, net[i].msg.Header, net[i].aad, "none")
                /\ UNCHANGED forged

ReuseB == \E p \in Party, i \in 1..Len(net) :
              /\ net[i].from = Peer(p)
              /\ ratchetShares \subseteq caller[p].shared
              /\ net[i].msg.Header.PublicKey # state[p].DHr
              /\ state' = [state EXCEPT ![p].DHr = net[i].msg.Header.PublicKey]
              /\ last' = [op |-> "Reuse", who |-> p, res |-> "ok", idx |-> i,
                          msg |-> net[i].msg, aad |-> Nil, pt |-> "", pre |-> state[p],
                          prekeys |-> store[p], save |-> NotSaved, again |-> FALSE,
                          kdf |-> 0, stores |-> 0, mk |-> Nil, wiped |-> {}]
              /\ UNCHANGED <<store, net, nextKey, opened, forged, twin, caller>>

NextBuffers == SealB \/ DeliverB \/ ReuseB

SpecBuffers == Init /\ [][NextBuffers]_vars

\* ---------------------------------------------------------------- codec
\* Header.Append, Concat and Header.Decode applied to chosen inputs: a Header h
\* and a byte string buf (the buffer appended to, or the additional data).
CodecKeys == {<<7>>, [i \in 1..16 |-> i], [i \in 1..24 |-> 32 + i]}
CodecNums == {0, 1, 258}
CodecBufs == {<<>>, <<97>>, <<97, 98>>,
              <<0, 0, 0, 0, 0, 0, 0, 1, 0, 0, 0, 0, 0, 0, 1, 2, 9>>,
              [i \in 1..16 |-> 255]}
CodecHeaders == [PublicKey : CodecKeys, PN : CodecNums, N : CodecNums]

InitCodec ==
    /\ state = [p \in Party |-> NewRecv(SK, Generate(1))]
    /\ store = [p \in Party |-> NoKeys]
    /\ net = <<>>
    /\ nextKey = 2
    /\ opened = {}
    /\ forged = 0
    /\ twin = [on |-> FALSE]
    /\ caller = [p \in Party |-> NoShares]
    /\ \E h \in CodecHeaders, buf \in CodecBufs :
          last = [op |-> "input", h |-> h, buf |-> buf, out |-> buf, from |-> "input",
                  dec |-> Decode(<<>>)]

\* out := h.Append(buf)
AppendStep ==
    /\ last.op = "input"
    /\ last' = [last EXCEPT !.op = "Append", !.from = "Append",
                            !.out = HeaderAppend(last.h, last.buf)]
    /\ UNCHANGED <<state, store, net, nextKey, opened, forged, twin, caller>>

\* out := Concat(buf, h)
ConcatStep ==
    /\ last.op = "input"
    /\ last' = [last EXCEPT !.op = "Concat", !.from = "Concat",
                            !.out = Concat(last.buf, last.h)]
    /\ UNCHANGED <<state, store, net, nextKey, opened, forged, twin, caller>>

\* a zero Header decodes out (the bytes made above, or buf as it came)
DecodeStep ==
    /\ last.op # "Decode"
    /\ last' = [last EXCEPT !.op = "Decode", !.dec = Decode(last.out)]
    /\ UNCHANGED <<state, store, net, nextKey, opened, forged, twin, caller>>

NextCodec == AppendStep \/ ConcatStep \/ DecodeStep

SpecCodec == InitCodec /\ [][NextCodec]_vars

\* --------------------------------------------------------- constructors
\* NewSend and NewRecv applied to chosen arguments: a shared key (or none), a
\* peer key that is valid, invalid or of the wrong length, a key pair (or
\* none), with Generate drawing scalar k or failing.
NewPeers == {<<BadPoint>>, <<1>>, <<2>>, Nil, <<1, 1>>}
NewPrivs == {Generate(1), Generate(2), Nil}
NewScalars == {3, 4}

InitNew ==
    /\ state = [p \in Party |-> NewRecv(SK, Generate(1))]
    /\ store = [p \in Party |-> NoKeys]
    /\ net = <<>>
    /\ nextKey = 3
    /\ opened = {}
    /\ forged = 0
    /\ twin = [on |-> FALSE]
    /\ caller = [p \in Party |-> NoShares]
    /\ \E sk \in {SK, Nil}, peer \in NewPeers, priv \in NewPrivs, k \in NewScalars,
          fail \in {"none", "rng"} :
          last = [op |-> "input", sk |-> sk, peer |-> peer, priv |-> priv, k |-> k,
                  fail |-> fail, ret |-> NotMade("none")]

NewSendStep ==
    /\ last.op = "input"
    /\ last' = [last EXCEPT !.op = "NewSend",
                            !.ret = NewSendCall(last.sk, last.peer, last.k, last.fail)]
    /\ UNCHANGED <<state, store, net, nextKey, opened, forged, twin, caller>>

NewRecvStep ==
    /\ last.op = "input"
    /\ last' = [last EXCEPT !.op = "NewRecv", !.ret = NewRecvCall(last.sk, last.priv)]
    /\ UNCHANGED <<state, store, net, nextKey, opened, forged, twin, caller>>

NextNew == NewSendStep \/ NewRecvStep

SpecNew == InitNew /\ [][NextNew]_vars

\* --------------------------------------------------------------- claims
\* The last call was an Open that returned an error.
OpenFailed == last.op = "Open" /\ last.res \in {"auth", "limit", "dh", "rng", "save"}

\* The last call was an Open of a Message whose header or aad is not the sealed one.
OpenAltered ==
    /\ last.op = "Open"
    /\ last.msg.Header # net[last.idx].msg.Header \/ last.aad # net[last.idx].aad

\* The state the last call started in accepts the Message as sealed.
WouldAccept ==
    OpenCall(last.pre, last.prekeys, net[last.idx].msg, net[last.idx].aad, nextKey, "none").res = "ok"

\* C1: when the parties take turns (one seals, the other opens that Message with
\* the same aad, then the roles swap), every Open succeeds and returns exactly
\* the plaintext that was sealed.
C1_RoundTrip == last.op = "Open" => (last.res = "ok" /\ last.pt = net[last.idx].pt)

\* bob has opened alice's second Message, sealed after her own DH ratchet
C1_Witness ==
    /\ last.op = "Open" /\ last.who = "bob" /\ last.idx = 3 /\ last.res = "ok"
    /\ net[3].msg.Header.PublicKey # net[1].msg.Header.PublicKey

\* C2: when alice seals up to MaxSkip Messages before any reply, bob's Opens of
\* them, in any order, all succeed and each returns the plaintext of the Message
\* presented.
C2_OutOfOrder ==
    (last.op = "Open" /\ last.who = "bob" /\ Len(net) <= MaxSkip)
        => (last.res = "ok" /\ last.pt = net[last.idx].pt)

\* bob has opened all MaxSkip Messages, the first one last, with its stored key
C2_Witness ==
    /\ Len(net) = MaxSkip /\ opened = 1..MaxSkip
    /\ last.op = "Open" /\ last.idx = 1 /\ last.res = "ok"
    /\ HasKey(last.prekeys, 0, last.msg.Header.PublicKey)

\* C3: if Open returns an error, every field of the Session's State equals its
\* value before the call.
C3_OpenErrorKeepsState == OpenFailed => state[last.who] = last.pre

\* Store.Save failed after the clone had been through a DH ratchet and a skip
C3_Witness ==
    /\ last.op = "Open" /\ last.res = "save"
    /\ last.msg.Header.PublicKey # last.pre.DHr
    /\ store[last.who] # last.prekeys

\* C4: if Open returns an error, the Store holds the same skipped keys as before
\* the call.
C4_OpenErrorKeepsStore == OpenFailed => store[last.who] = last.prekeys

\* C5: an Open whose header (PN, N or public key) or aad differs from the one
\* the Message was sealed with, in a state that accepts the Message as sealed,
\* does not return a plaintext.
C5_HeaderAADBinding == (OpenAltered /\ WouldAccept) => last.res # "ok"

\* C6: an Open of a Message whose N exceeds the receiver's Nr by more than
\* MaxSkip fails with the limit error and leaves state and store unchanged.
C6_SkipBound ==
    (last.op = "Open" /\ last.msg.Header.N - last.pre.Nr > MaxSkip)
        => (last.res = "limit" /\ state[last.who] = last.pre /\ store[last.who] = last.prekeys)

\* C7: the in-memory store never holds more than MaxSkip keys.
C7_StoreCapacity == \A p \in Party : Cardinality(DOMAIN store[p]) <= MaxSkip

\* C8: once a Message has been opened, its message key is held neither in the
\* receiver's State nor in the receiver's Store, in every later state.
C8_ForwardSecrecy ==
    \A i \in opened :
        LET mk == net[i].msg.Ciphertext.key
            p  == Peer(net[i].from)
        IN /\ \A x \in DOMAIN store[p] : store[p][x] # mk
           /\ mk \notin {state[p].RK, state[p].CKs, state[p].CKr}

\* The resumed Session's last call ended as the original's did: the same result,
\* the same plaintext, the same header counters.
SameOutcome ==
    /\ twin.res = last.res
    /\ last.op = "Open" => twin.pt = last.pt
    /\ last.op = "Seal" => (twin.msg.Header.PN = last.msg.Header.PN /\ twin.msg.Header.N = last.msg.Header.N)

\* The last call went to the party whose Session was resumed, after the Resume.
TwinCalled == twin.on /\ last.op \in {"Seal", "Open"} /\ last.who = twin.who

C10_SendBeforeReceive ==
    (last.op = "Seal" /\ last.who = "bob" /\ \A i \in opened : net[i].from # "alice")
        => /\ last.res = "panic" /\ last.msg = NoMsg
           /\ state["bob"] = last.pre
           /\ state["bob"].CKs = Nil /\ state["bob"].Ns = 0

\* bob, who has opened nothing, called Seal
C10_Witness == last.op = "Seal" /\ last.who = "bob" /\ last.res = "panic" /\ opened = {}

\* C11: Seal gives Store.Save the State as it is before the chain key and the
\* counter are updated; when Store.Save returns an error, Seal returns that error
\* with no Message and every State field is as before the call.
C11_SealSaveFailure ==
    /\ (last.op = "Seal" /\ last.res \in {"ok", "save"})
           => (last.save.called /\ last.save.arg = last.pre)
    /\ (last.op = "Seal" /\ last.res = "save")
           => (last.msg = NoMsg /\ last.idx = 0 /\ state[last.who] = last.pre)

\* alice's second Seal met a failing Store.Save
C11_Witness ==
    /\ last.op = "Seal" /\ last.res = "save" /\ last.who = "alice"
    /\ last.pre.Ns = 1 /\ Len(net) = 1

\* C12: no two Messages sealed by one Session carry the same (public key, N)
\* pair in their headers, and no two are sealed under the same message key; a
\* call lowers Ns only when it also replaces the key pair DHs.
C12_FreshKeys ==
    /\ \A i, j \in 1..Len(net) :
           (i # j /\ net[i].from = net[j].from)
              => /\ <<net[i].msg.Header.PublicKey, net[i].msg.Header.N>>
                       # <<net[j].msg.Header.PublicKey, net[j].msg.Header.N>>
                 /\ net[i].msg.Ciphertext.key # net[j].msg.Ciphertext.key
    /\ (last.op \in {"Seal", "Open"} /\ state[last.who].Ns < last.pre.Ns)
           => state[last.who].DHs # last.pre.DHs

\* alice has sealed a Message numbered 0 before and after a DH ratchet of hers
C12_Witness ==
    \E i, j \in 1..Len(net) :
        /\ i < j /\ net[i].from = "alice" /\ net[j].from = "alice"
        /\ net[i].msg.Header.N = 0 /\ net[j].msg.Header.N = 0

\* The 16 + len(PublicKey) bytes of a Header: PN and N as 8 big-endian bytes
\* each, then the public key.
Serialized(h) == PutUint64(h.PN) \o PutUint64(h.N) \o h.PublicKey

\* C13: Concat(aad, h) is the signed varint of len(aad), aad, PN and N as 8
\* big-endian bytes each and the public key; h.Append(buf) is buf followed by
\* the 16 + len(public key) bytes of h.
C13_ConcatLayout ==
    /\ last.op = "Concat" => last.out = PutVarint(Len(last.buf)) \o last.buf \o Serialized(last.h)
    /\ last.op = "Append" => last.out = last.buf \o Serialized(last.h)

\* C14: Decode of the bytes of h.Append(nil) succeeds and gives PN, N and the
\* public key of h; Decode of fewer than 16 bytes returns an error.
C14_CodecRoundTrip ==
    /\ (last.op = "Decode" /\ last.from = "Append" /\ last.buf = <<>>)
           => (~last.dec.err /\ last.dec.h = last.h)
    /\ (last.op = "Decode" /\ Len(last.out) < 16) => last.dec.err

\* C15: NewSend(SK, peer), with SK and peer of the suite's lengths, returns the
\* error and no Session when Generate or DH fails, and else a State with the
\* generated DHs, DHr = peer, (RK, CKs) = KDFrk(SK, DH(DHs, peer)), CKr empty
\* and Ns = Nr = PN = 0; NewRecv(SK, priv) returns a State with DHs = priv,
\* RK = SK, DHr, CKs and CKr empty and all counters 0.
C15_InitialStates ==
    /\ (last.op = "NewSend" /\ last.sk # Nil /\ Len(last.peer) = PubLen)
           => IF last.fail = "rng" THEN last.ret.res = "rng" /\ ~last.ret.made
              ELSE IF last.peer[1] = BadPoint THEN last.ret.res = "dh" /\ ~last.ret.made
              ELSE /\ last.ret.res = "ok" /\ last.ret.made
                   /\ last.ret.s =
                         [DHs |-> Generate(last.k), DHr |-> last.peer,
                          RK |-> KDFrk(last.sk, DH(Generate(last.k), last.peer)).RK,
                          CKs |-> KDFrk(last.sk, DH(Generate(last.k), last.peer)).CK,
                          CKr |-> Nil, Ns |-> 0, Nr |-> 0, PN |-> 0]
    /\ last.op = "NewRecv"
           => /\ last.ret.res = "ok" /\ last.ret.made
              /\ last.ret.s = [DHs |-> last.priv, DHr |-> Nil, RK |-> last.sk, CKs |-> Nil,
                               CKr |-> Nil, Ns |-> 0, Nr |-> 0, PN |-> 0]

\* NewSend returned a Session for a valid peer key
C15_Witness ==
    /\ last.op = "NewSend" /\ last.ret.made /\ last.peer = <<1>> /\ last.sk = SK
    /\ last.ret.s.CKs = <<"ck", SK, {1, last.k}, 0>>

\* C16: whatever Message is given to Open (any header counters, a public key
\* that is invalid or of the wrong length, a public key equal to DHr while
\* there is no receiving chain), Open returns a plaintext or an error and does
\* not panic.
C16_OpenNeverPanics == last.op = "Open" => last.res # "panic"

RECURSIVE Advanced(_, _)
\* the chain key n KDFck steps after ck
Advanced(ck, n) == IF n = 0 THEN ck ELSE Advanced(KDFck(ck).CK, n - 1)

\* The State after the last call is the State before it taken through one DH
\* ratchet on the header's public key and h.N + 1 steps of the new receiving chain.
Ratcheted ==
    LET h   == last.msg.Header
        pre == last.pre
        s   == state[last.who]
        a   == KDFrk(pre.RK, DH(pre.DHs, h.PublicKey))
        b   == KDFrk(a.RK, DH(s.DHs, h.PublicKey))
    IN /\ s.DHr = h.PublicKey /\ s.PN = pre.Ns /\ s.Ns = 0 /\ s.Nr = h.N + 1
       /\ s.DHs # pre.DHs /\ s.DHs = Generate(nextKey - 1)
       /\ s.CKr = Advanced(a.CK, h.N + 1)
       /\ s.RK = b.RK /\ s.CKs = b.CK

\* C17: when Open succeeds, through the path that advances the chains, on a
\* Message whose header public key P differs from DHr, the State has DHr = P,
\* PN = the old Ns, Ns = 0, Nr = h.N + 1, a new DHs, CKr = the chain of
\* KDFrk(old RK, DH(old DHs, P)) advanced h.N + 1 steps and
\* (RK, CKs) = KDFrk(that root key, DH(new DHs, P)).
C17_RatchetPost ==
    (/\ last.op = "Open" /\ last.res = "ok"
     /\ last.msg.Header.PublicKey # last.pre.DHr
     /\ ~HasKey(last.prekeys, last.msg.Header.N, last.msg.Header.PublicKey))
        => Ratcheted

\* C18: a successful Seal returns a Message with the header (Public(DHs), PN,
\* the Ns before the call), replaces CKs by the chain key KDFck(CKs) gives,
\* adds exactly 1 to Ns, and leaves DHs, DHr, RK, CKr, Nr, PN and the store of
\* skipped keys unchanged.
C18_SealFrame ==
    (last.op = "Seal" /\ last.res = "ok")
        => /\ last.msg.Header = [PublicKey |-> Public(last.pre.DHs), PN |-> last.pre.PN,
                                 N |-> last.pre.Ns]
           /\ state[last.who] = [last.pre EXCEPT !.CKs = KDFck(last.pre.CKs).CK,
                                                 !.Ns = last.pre.Ns + 1]
           /\ state[last.who].CKs # last.pre.CKs
           /\ store[last.who] = last.prekeys

\* a party with a skipped key in its store seals its second Message in a row
C18_Witness ==
    /\ last.op = "Seal" /\ last.res = "ok"
    /\ last.prekeys # NoKeys /\ last.pre.Ns > 0

\* The entries skip writes for the Messages numbered from..(to - 1) of the
\* chain that stands at ck for number from, under public key pub.
SkippedKeys(ck, from, to, pub) ==
    [x \in {<<i, pub>> : i \in from..(to - 1)} |-> KDFck(Advanced(ck, x[1] - from)).MK]

\* C19: an Open that succeeds through the chain-advancing path on a Message
\* whose header public key equals DHr stores exactly the message keys numbered
\* [old Nr, h.N) under (number, DHr), sets Nr = h.N + 1, advances CKr by
\* h.N + 1 - old Nr steps of KDFck, and leaves DHs, DHr, RK, CKs, Ns and PN
\* unchanged.
C19_OpenNoRatchet ==
    (/\ last.op = "Open" /\ last.res = "ok"
     /\ ~HasKey(last.prekeys, last.msg.Header.N, last.msg.Header.PublicKey)
     /\ last.msg.Header.PublicKey = last.pre.DHr)
        => LET n   == last.msg.Header.N
               pre == last.pre
               new == SkippedKeys(pre.CKr, pre.Nr, n, pre.DHr)
           IN /\ n >= pre.Nr
              /\ state[last.who] =
                    [pre EXCEPT !.Nr = n + 1, !.CKr = Advanced(pre.CKr, n + 1 - pre.Nr)]
              /\ store[last.who] =
                    [x \in DOMAIN last.prekeys \cup DOMAIN new |->
                       IF x \in DOMAIN new THEN new[x] ELSE last.prekeys[x]]

\* C20: when the Store holds a key for (h.N, h.PublicKey), Open uses only that
\* key and never calls Store.Save or changes the State; when the key
\* authenticates the Message, the plaintext is returned and exactly that entry
\* is deleted; when it does not, the error is returned and the Store is as before.
C20_FastPath ==
    (last.op = "Open" /\ HasKey(last.prekeys, last.msg.Header.N, last.msg.Header.PublicKey))
        => LET k == <<last.msg.Header.N, last.msg.Header.PublicKey>>
           IN /\ ~last.save.called
              /\ state[last.who] = last.pre
              /\ last.res \in {"ok", "auth"}
              /\ last.res = "ok"
                    => /\ last.msg.Ciphertext.key = last.prekeys[k]
                       /\ last.pt = net[last.idx].pt
                       /\ DOMAIN store[last.who] = DOMAIN last.prekeys \ {k}
                       /\ \A x \in DOMAIN store[last.who] : store[last.who][x] = last.prekeys[x]
              /\ last.res = "auth"
                    => /\ last.msg.Ciphertext.key # last.prekeys[k]
                       /\ store[last.who] = last.prekeys

\* an Open with a stored key succeeded and left another stored key in place
C20_Witness ==
    /\ last.op = "Open" /\ last.res = "ok"
    /\ HasKey(last.prekeys, last.msg.Header.N, last.msg.Header.PublicKey)
    /\ store[last.who] # NoKeys


\* The receiver of the last Open had already opened a later Message of the same
\* sender that carries another ratchet key: the Message is of a chain left behind.
Delayed ==
    \E j \in opened \ {last.idx} :
       /\ j > last.idx
       /\ net[j].from = net[last.idx].from
       /\ net[j].msg.Header.PublicKey # net[last.idx].msg.Header.PublicKey

\* C21: an Open that ratchets on a header with previous chain length PN stores
\* the keys numbered [Nr, PN) of the chain it leaves under the public key it
\* leaves, so a Message of that chain that arrives after the ratchet, as
\* sealed and for the first time, is opened and gives its plaintext.
C21_DelayedAcrossRatchet ==
    /\ (/\ last.op = "Open" /\ last.res = "ok"
        /\ ~HasKey(last.prekeys, last.msg.Header.N, last.msg.Header.PublicKey)
        /\ last.msg.Header.PublicKey # last.pre.DHr
        /\ last.pre.CKr # Nil)
           => \A x \in DOMAIN SkippedKeys(last.pre.CKr, last.pre.Nr, last.msg.Header.PN,
                                         last.pre.DHr) :
                 /\ HasKey(store[last.who], x[1], x[2])
                 /\ LoadKey(store[last.who], x[1], x[2]) =
                       SkippedKeys(last.pre.CKr, last.pre.Nr, last.msg.Header.PN,
                                   last.pre.DHr)[x]
    /\ (/\ last.op = "Open" /\ ~last.again /\ ~OpenAltered /\ Delayed)
           => last.res = "ok" /\ last.pt = net[last.idx].pt


\* C22: an Open that succeeds through the chain-advancing path from a state
\* with no receiving chain (CKr empty) stores nothing for the header's PN,
\* whatever its value: afterwards the Store holds exactly the keys numbered
\* [0, h.N) of the new receiving chain under the header's public key, and
\* Nr = h.N + 1.
C22_FirstOpen ==
    (/\ last.op = "Open" /\ last.res = "ok"
     /\ ~HasKey(last.prekeys, last.msg.Header.N, last.msg.Header.PublicKey)
     /\ last.pre.CKr = Nil)
        => LET h   == last.msg.Header
               CKr == KDFrk(last.pre.RK, DH(last.pre.DHs, h.PublicKey)).CK
           IN /\ store[last.who] = SkippedKeys(CKr, 0, h.N, h.PublicKey)
              /\ state[last.who].Nr = h.N + 1


\* C23: a Message the Session has opened is not opened a second time: an Open
\* of a Message, as sealed, that an earlier Open of the same Session returned
\* the plaintext of, fails.
C23_NoReplay ==
    (last.op = "Open" /\ last.again /\ ~OpenAltered) => last.res # "ok"


\* The last call was a successful Open, through the chain-advancing path, of
\* the Message its peer sealed last, as sealed.
OpenedLatest ==
    /\ last.op = "Open" /\ last.res = "ok" /\ ~OpenAltered
    /\ ~HasKey(last.prekeys, last.msg.Header.N, last.msg.Header.PublicKey)
    /\ \A j \in 1..Len(net) : net[j].from = net[last.idx].from => j <= last.idx

\* The receiver's receiving chain is the peer's sending chain.
InSync(p) ==
    /\ state[p].DHr = Public(state[Peer(p)].DHs)
    /\ state[p].CKr = state[Peer(p)].CKs
    /\ state[p].Nr = state[Peer(p)].Ns

\* C24 as stated: whenever a receiver has just opened, through the
\* chain-advancing path, the Message most recently sealed by its peer, its
\* DHr is the public key of the peer's DHs, its CKr the peer's CKs and its Nr
\* the peer's Ns.
C24_ChainSync == OpenedLatest => InSync(last.who)

\* C24 amended: the same, when the peer's DHs is still the key pair whose
\* public key the Message carries (the peer has not ratcheted since it sealed
\* the Message).
C24_ChainSyncSameKey ==
    (OpenedLatest /\ Public(state[Peer(last.who)].DHs) = last.msg.Header.PublicKey)
        => InSync(last.who)

\* the receiver ratchets onto the peer's key and opens its second Message
C24_Witness ==
    /\ OpenedLatest /\ Public(state[Peer(last.who)].DHs) = last.msg.Header.PublicKey
    /\ last.pre.DHr # last.msg.Header.PublicKey
    /\ last.pre.CKr # Nil
    /\ state[last.who].Nr = 2


\* C25: after a successful Seal or Open that called Store.Save, the State it
\* passed to Save is the Session's committed State; so the next Message of a
\* Session resumed from what a Seal saved has neither the header (public key
\* and N) nor the message key of the Message that Seal returned.
C25_SavedIsCommitted ==
    /\ (last.op \in {"Seal", "Open"} /\ last.res = "ok" /\ last.save.called)
           => last.save.arg = state[last.who]
    /\ (last.op = "Seal" /\ last.res = "ok")
           => \A plaintext \in PT, additionalData \in AAD :
                 LET t == Resume(last.save.arg)
                     r == SealCall(t.s, t.keys, plaintext, additionalData, "none")
                 IN /\ r.msg.Header # last.msg.Header
                    /\ r.msg.Ciphertext.key # last.msg.Ciphertext.key


\* C26: in every committed State, whatever calls succeeded or failed before,
\* RK has 32 bytes, CKs and CKr are each empty or of 32 bytes, and DHs is a
\* key pair, not empty.
C26_StateShape ==
    \A p \in Party :
       /\ KeyLen(state[p].RK) = KeySize
       /\ KeyLen(state[p].CKs) \in {0, KeySize}
       /\ KeyLen(state[p].CKr) \in {0, KeySize}
       /\ Len(state[p].DHs) = PrivLen

\* an Open whose ratchet could not generate the new key pair has returned
C26_Witness ==
    /\ last.op = "Open" /\ last.res = "rng"
    /\ state[last.who].CKr # Nil


\* C27: an Open returns after at most max_skip + 2 chain-key derivations and
\* at most max_skip + 2 calls of StoreKey, whatever PN and N its header
\* carries, with a new public key or not.
C27_BoundedWork ==
    last.op = "Open" => last.kdf <= MaxSkip + 2 /\ last.stores <= MaxSkip + 2

\* a header with a counter far past the limit made Open work up to the bound
C27_Witness ==
    /\ last.op = "Open"
    /\ FarN \in {last.msg.Header.N, last.msg.Header.PN}
    /\ last.kdf = MaxSkip + 2 /\ last.stores = MaxSkip + 2


\* C28: when a Seal or an Open returns successfully, the buffer of the
\* message key it derived, or took from the Store, holds zeros; and an Open
\* that commits has zeroed DHs, RK, CKs and CKr of the State it replaces.
C28_KeyHygiene ==
    /\ (last.op \in {"Seal", "Open"} /\ last.res = "ok") => last.mk = Nil
    /\ (last.op = "Open" /\ last.res = "ok" /\ state[last.who] # last.pre)
           => {"DHs", "RK", "CKs", "CKr"} \subseteq last.wiped


\* C29: the State shares no buffer with the caller: no call has written to a
\* buffer the caller passed to NewSend, NewRecv or Open, and the caller's
\* writing to a Header.PublicKey buffer it passed before leaves DHr as it was.
C29_NoSharedBuffers ==
    /\ \A p \in Party : caller[p].zeroed = {}
    /\ last.op = "Reuse" => state[last.who].DHr = last.pre.DHr

====
